---- MODULE Spec2Model ----
(***************************************************************************)
(* Model of src/rss_to_notion.py: the upsert reconciler (main,             *)
(* harvest_feed, query_page_by_url, create_page, update_page,              *)
(* replace_page_children, each under its backoff wrapper) against a remote *)
(* page store, and the text chunker (chunk_text / to_rich_text).           *)
(***************************************************************************)
EXTENDS Integers, Sequences, FiniteSets, TLC

(***************************************************************************)
(* Bounds of the model.                                                    *)
(***************************************************************************)
MaxRuns == 2
MaxFeeds == 2
MaxEntries == 2
NumUrls == 2
MaxFailures == 5
MaxOutages == 1
MaxLost == 1
MaxSubPages == 1
ListPageSize == 2
MaxTextLen == 4
MaxChunkSize == 3
MaxMdLen == 4
MaxMdLines == 3
MaxLiveEntries == 2
MaxLiveLost == 0

(***************************************************************************)
(* Program constants.                                                      *)
(***************************************************************************)
MAX_TRIES == 5
APPEND_SIZE == 50
DEFAULT_CHUNK_SIZE == 1900
FETCH_FULL_CONTENT == TRUE

VARIABLES
    ALLOW_UPDATES,   \* configuration flag, line 44
    MAX_ITEMS,       \* configuration, line 43
    RSS_FEEDS,       \* the configured feeds; each is the entry list feedparser returns
    pc,              \* position of the (single-threaded) program
    run,             \* number of runs of main started so far
    fi,              \* main: index of the feed in RSS_FEEDS
    total,           \* main: total
    ei,              \* harvest_feed: index of the entry in the sliced entry list
    counts,          \* harvest_feed: count_new, count_updated, count_skipped
    entry_link,      \* harvest_feed: entry_link of the current entry (0: empty)
    article_blocks,  \* harvest_feed: article_blocks of the current entry
    existing_id,     \* harvest_feed: existing_id (0: None, -1: not assigned yet)
    tries,           \* backoff: attempt number of the running call of each wrapped function
    existing,        \* replace_page_children: existing
    cursor,          \* replace_page_children: cursor (0: None)
    di,              \* replace_page_children: position of the delete loop
    ai,              \* replace_page_children: position of the append loop
    pages,           \* remote store: the pages of the database, in creation order
    subPages,        \* remote store: sub-pages / sub-databases users nested into pages
    net,             \* the network: what it may still do to the calls of the program
    cur,             \* history: index of the entry the per-entry history is about
    outcomes,        \* history: outcomes chosen for that entry, in order
    calls,           \* history: what was performed for that entry
    listCalls,       \* history: calls of blocks.children.list(start_cursor=None) for that entry
    skipped0,        \* history: count_skipped when the entry began
    updatedOk,       \* history: update_page returned successfully for that entry
    visited,         \* history: entries of the current feed whose iteration began
    harvested,       \* history: feeds harvest_feed was called for in this run
    raisedFeeds,     \* history: feeds whose harvest_feed raised in this run
    protectedDeleted,\* history: a delete call was issued for a sub-page / sub-database
    upserted,        \* history: calls of create_page / update_page that returned in this run
    text,            \* chunk_text: text
    chunk_size,      \* chunk_text: chunk_size
    idx,             \* chunk_text: idx of the range loop
    chunks,          \* to_rich_text: the runs collected so far
    cpc,             \* chunk_text: position of the generator
    markdown,        \* markdown_to_blocks: markdown
    li,              \* markdown_to_blocks: index of raw_line in markdown.splitlines()
    md_blocks,       \* markdown_to_blocks: blocks
    paragraph_buffer,\* markdown_to_blocks: paragraph_buffer
    code_buffer,     \* markdown_to_blocks: code_buffer
    in_code,         \* markdown_to_blocks: in_code
    code_language,   \* markdown_to_blocks: code_language
    origin,          \* history: for each block, the line at which it was emitted
    fellBack,        \* history: the line scan emitted nothing (line 250 taken)
    mpc,             \* markdown_to_blocks: position
    dates,           \* build_properties: entry fields published, updated, created
    published,       \* build_properties: published
    date_prop,       \* build_properties: props["Published"]["date"]
    ppc,             \* build_properties: position
    feed_entry,      \* extract_article_markdown: entry
    has_document,    \* extract_article_markdown: Document is not None
    page_html,       \* what the article URL serves
    html,            \* extract_article_markdown: html
    ci,              \* extract_article_markdown: index of candidate
    extracted,       \* extract_article_markdown: the value returned
    tried,           \* history: the sources converted, in order
    xpc,             \* extract_article_markdown: position
    new_children,    \* replace_page_children: children
    batch_size,      \* _chunk_blocks: size
    bidx,            \* _chunk_blocks: idx of the range loop
    appended,        \* remote store: the children given to each append call, in order
    bpc              \* replace_page_children: position of the append loop

configVars == <<ALLOW_UPDATES, MAX_ITEMS, RSS_FEEDS>>
mainVars == <<run, fi, total>>
entryVars == <<entry_link, article_blocks, existing_id>>
replaceVars == <<existing, cursor, di, ai>>
storeVars == <<pages, subPages>>
entryHist == <<cur, outcomes, calls, listCalls, skipped0, updatedOk>>
feedHist == <<visited, harvested, raisedFeeds>>
chunkVars == <<text, chunk_size, idx, chunks, cpc>>
syncVars == <<configVars, pc, mainVars, ei, counts, entryVars, tries, replaceVars,
              storeVars, net, entryHist, feedHist, protectedDeleted, upserted>>
mdVars == <<markdown, li, md_blocks, paragraph_buffer, code_buffer, in_code,
            code_language, origin, fellBack, mpc>>
propVars == <<dates, published, date_prop, ppc>>
extractVars == <<feed_entry, has_document, page_html, html, ci, extracted, tried, xpc>>
batchVars == <<new_children, batch_size, bidx, appended, bpc>>
pureVars == <<chunkVars, mdVars, propVars, extractVars, batchVars>>
vars == <<syncVars, pureVars>>

(***************************************************************************)
(* Helpers on sequences.                                                   *)
(***************************************************************************)
Min(a, b) == IF a < b THEN a ELSE b

Max(a, b) == IF a < b THEN b ELSE a

SeqsUpTo(S, n) == UNION {[1..k -> S] : k \in 0..n}

\* Python s[a:b] for 0 <= a, with b clipped to the length
PySlice(s, a, b) == SubSeq(s, a + 1, Min(b, Len(s)))

\* Python s[:n], n of either sign
PyPrefix(s, n) == IF n >= 0 THEN SubSeq(s, 1, Min(n, Len(s)))
                  ELSE SubSeq(s, 1, Max(Len(s) + n, 0))

RECURSIVE Flatten(_)
Flatten(ss) == IF ss = <<>> THEN <<>> ELSE Head(ss) \o Flatten(Tail(ss))

(***************************************************************************)
(* Data.  A feed entry carries its link (0: the link is missing or empty). *)
(* A remote page carries the URL property, the run that created it and its *)
(* child blocks; a block carries its id, its type and its content.         *)
(***************************************************************************)
Links == 0..NumUrls

Entry == [link : Links]

FeedContents == SeqsUpTo(Entry, MaxEntries)

FeedLists == SeqsUpTo(FeedContents, MaxFeeds) \ {<<>>}

ItemLimits == 1..MaxEntries

NoTries == [query |-> 1, create |-> 1, update |-> 1, replace |-> 1]

NoCounts == [new |-> 0, updated |-> 0, skipped |-> 0]

(***************************************************************************)
(* harvest_feed: the pieces of the entry loop.                             *)
(***************************************************************************)
\* (parsed.entries or [])[:MAX_ITEMS]
Entries(f) == PyPrefix(RSS_FEEDS[f], MAX_ITEMS)

\* A loop that forgets the check of the link
HasLinkAlways(e) == TRUE

\* entry_link = entry.get("link") or ""; if not entry_link: skip
HasLink(e) == e.link # 0

\* article_blocks: the blocks of the fetched article, or of the feed's own
\* content / the stub when the fetch gave nothing; never empty
ArticleBlocksOf(fetched) == IF FETCH_FULL_CONTENT /\ fetched THEN <<1, 2>> ELSE <<3>>

\* A loop that forgets the ALLOW_UPDATES flag
DecisionIgnoresFlag(id, allow) == IF id = 0 THEN "create" ELSE "update"

\* What the entry loop does once the lookup has returned
Decision(id, allow) ==
    IF id = 0 THEN "create"
    ELSE IF allow THEN "update" ELSE "skip"

\* A main without the try around harvest_feed
MainOnRaisePropagate == "propagate"

\* main: try: total += harvest_feed(url) except Exception: print
MainOnRaise == "catch"

\* An exception that has left harvest_feed ends the program
RaisedPcCrashed == "crashed"

\* Where the program is after an exception has left the body of the entry loop:
\* harvest_feed has no handler of its own, so the exception reaches main
RaisedPc == IF MainOnRaise = "catch" THEN "main_except" ELSE "crashed"

(***************************************************************************)
(* The backoff wrapper: max_tries = 5 calls of the wrapped function.       *)
(***************************************************************************)
Backoff(t) == IF t < MAX_TRIES THEN "retry" ELSE "raise"

(***************************************************************************)
(* The network.  A call over the network (the article fetch, a call of the *)
(* remote store) succeeds or raises.  The calls that raise come in outages *)
(* (runs of consecutive failing calls); the model bounds the number of     *)
(* failing calls, of outages, and of failed calls of the store that had    *)
(* taken effect all the same (the answer was lost).  Once nothing can fail *)
(* any more the record is put into one normal form.  A network whose       *)
(* number of failing calls is Unlimited can fail every call.               *)
(***************************************************************************)
NetDone == [left |-> 0, outages |-> 0, lost |-> 0, down |-> FALSE]

Unlimited == -1

CanFail == net.left = Unlimited \/ (net.left > 0 /\ (net.down \/ net.outages > 0))

CanLose == CanFail /\ net.lost > 0

NetAfterFailure(isLost) ==
    IF net.left = Unlimited
    THEN [net EXCEPT !.lost = IF isLost THEN @ - 1 ELSE @]
    ELSE
    IF net.left = 1 THEN NetDone
    ELSE [left |-> net.left - 1,
          outages |-> IF net.down THEN net.outages ELSE net.outages - 1,
          lost |-> IF isLost THEN net.lost - 1 ELSE net.lost,
          down |-> TRUE]

NetAfterSuccess ==
    IF net.down /\ net.outages = 0 THEN NetDone ELSE [net EXCEPT !.down = FALSE]

(***************************************************************************)
(* The remote store.                                                       *)
(***************************************************************************)
\* A lookup whose filter matches nothing
QueryResultsNone(url) == {0}

\* databases.query with filter URL equals url, page_size 1: results[0]["id"],
\* or None (0) when there is no result; the store chooses the order of its results
QueryResults(url) ==
    LET hits == {p \in 1..Len(pages) : pages[p].url = url}
    IN IF hits = {} THEN {0} ELSE hits

\* The ids the store gives to n new blocks of a page.  An id is unique among
\* the blocks that exist; the program never uses the id of a block after the
\* attempt that listed it, so the model names a new block by the smallest
\* number no block of the page carries.
RECURSIVE FreshIds(_, _)
FreshIds(used, n) ==
    IF n = 0 THEN <<>>
    ELSE LET i == CHOOSE k \in 1..(Cardinality(used) + 1) :
                      k \notin used /\ \A j \in 1..(k - 1) : j \in used
         IN <<i>> \o FreshIds(used \cup {i}, n - 1)

IdsOf(children) == {children[i].id : i \in 1..Len(children)}

NewBlocks(contents, children) ==
    LET ids == FreshIds(IdsOf(children), Len(contents))
    IN [i \in 1..Len(contents) |->
           [id |-> ids[i], type |-> "paragraph", content |-> contents[i]]]

\* pages.create(parent, properties, children)
NewPage(url, contents) ==
    [url |-> url, run |-> run, children |-> NewBlocks(contents, <<>>)]

\* blocks.children.append(block_id, children)
WithAppended(p, contents) ==
    [pages EXCEPT ![p].children = @ \o NewBlocks(contents, @)]

\* blocks.children.list(block_id, start_cursor): one page of results
ListResults(p, c) == PySlice(pages[p].children, c, c + ListPageSize)

ListHasMore(p, c) == c + ListPageSize < Len(pages[p].children)

\* blocks.delete(block_id)
WithoutBlock(children, id) == SelectSeq(children, LAMBDA b : b.id # id)

\* The block types of sub-pages and sub-databases
SubTypes == {"child_database", "child_page"}

\* A replace that spares sub-databases only
IsProtectedOnlyDatabase(child) == child.type \in {"child_database"}

\* replace_page_children: child_type in {"child_database", "child_page"}
IsProtected(child) == child.type \in {"child_database", "child_page"}

\* _chunk_blocks(blocks, size)
ChunkBlocks(blocks, size) ==
    [k \in 1..((Len(blocks) + size - 1) \div size) |->
        PySlice(blocks, (k - 1) * size, k * size)]

Deletable(children) == SelectSeq(children, LAMBDA b : b.type \notin SubTypes)

(***************************************************************************)
(* Initial state: the configuration is read, the database is empty,        *)
(* nothing has run.                                                        *)
(***************************************************************************)
ChunkIdle ==
    /\ text = <<>>
    /\ chunk_size = 1
    /\ idx = 0
    /\ chunks = <<>>
    /\ cpc = "off"

\* "plain text"
PlainText == <<"p", "l", "a", "i", "n", " ", "t", "e", "x", "t">>

MdIdle ==
    /\ markdown = <<>>
    /\ li = 1
    /\ md_blocks = <<>>
    /\ paragraph_buffer = <<>>
    /\ code_buffer = <<>>
    /\ in_code = FALSE
    /\ code_language = PlainText
    /\ origin = <<>>
    /\ fellBack = FALSE
    /\ mpc = "off"

PropsIdle ==
    /\ dates = <<>>
    /\ published = "None"
    /\ date_prop = <<>>
    /\ ppc = "off"

ExtractIdle ==
    /\ feed_entry = <<>>
    /\ has_document = FALSE
    /\ page_html = "None"
    /\ html = "None"
    /\ ci = 1
    /\ extracted = "None"
    /\ tried = <<>>
    /\ xpc = "off"

BatchIdle ==
    /\ new_children = <<>>
    /\ batch_size = 1
    /\ bidx = 0
    /\ appended = <<>>
    /\ bpc = "off"

ProgramStart ==
    /\ pc = "idle"
    /\ fi = 1
    /\ total = 0
    /\ ei = 1
    /\ counts = NoCounts
    /\ entry_link = 0
    /\ article_blocks = <<>>
    /\ existing_id = -1
    /\ tries = NoTries
    /\ existing = <<>>
    /\ cursor = 0
    /\ di = 1
    /\ ai = 1
    /\ cur = 0
    /\ outcomes = <<>>
    /\ calls = {}
    /\ listCalls = 0
    /\ skipped0 = 0
    /\ updatedOk = FALSE
    /\ visited = {}
    /\ harvested = <<>>
    /\ raisedFeeds = {}
    /\ protectedDeleted = FALSE
    /\ upserted = 0

SyncStart ==
    /\ ProgramStart
    /\ run = 0
    /\ pages = <<>>
    /\ subPages = {}
    /\ net = [left |-> MaxFailures, outages |-> MaxOutages, lost |-> MaxLost,
              down |-> FALSE]

Init ==
    /\ ALLOW_UPDATES \in BOOLEAN
    /\ MAX_ITEMS \in ItemLimits
    /\ RSS_FEEDS \in FeedLists
    /\ SyncStart
    /\ ChunkIdle
    /\ MdIdle
    /\ PropsIdle
    /\ ExtractIdle
    /\ BatchIdle

(***************************************************************************)
(* How an exception travels.                                               *)
(***************************************************************************)
NoReplaceLocals ==
    /\ existing' = <<>>
    /\ cursor' = 0
    /\ di' = 1
    /\ ai' = 1

\* The exception leaves harvest_feed
RaiseOut ==
    /\ pc' = RaisedPc
    /\ raisedFeeds' = raisedFeeds \cup {fi}
    /\ tries' = NoTries
    /\ NoReplaceLocals

\* An exception in the body of query_page_by_url, create_page or update_page
\* (f names it): the wrapper calls the body again, or gives up and raises
RaiseIn(f) ==
    IF Backoff(tries[f]) = "retry"
    THEN /\ tries' = [tries EXCEPT ![f] = @ + 1, !.replace = 1]
         /\ pc' = f
         /\ raisedFeeds' = raisedFeeds
         /\ NoReplaceLocals
    ELSE RaiseOut

\* An exception in the body of replace_page_children: its own wrapper retries
\* it; when that gives up the exception is one in the body of update_page
RaiseInReplace ==
    IF Backoff(tries.replace) = "retry"
    THEN /\ tries' = [tries EXCEPT !.replace = @ + 1]
         /\ pc' = "list"
         /\ raisedFeeds' = raisedFeeds
         /\ NoReplaceLocals
    ELSE RaiseIn("update")

\* The body of the entry loop is over for this entry (time.sleep(0.2), or continue)
NextEntry ==
    /\ ei' = ei
    /\ pc' = "entry_next"
    /\ tries' = NoTries
    /\ NoReplaceLocals

\* The history of one entry ends with its iteration
NoEntryHist ==
    /\ cur' = 0
    /\ outcomes' = <<>>
    /\ calls' = {}
    /\ listCalls' = 0
    /\ skipped0' = 0
    /\ updatedOk' = FALSE

NoEntryLocals ==
    /\ entry_link' = 0
    /\ article_blocks' = <<>>
    /\ existing_id' = -1

(***************************************************************************)
(* main.                                                                   *)
(***************************************************************************)
\* A run starts: main() sets total = 0 and enters the loop over RSS_FEEDS
StartRun ==
    /\ pc \in {"idle", "done"}
    /\ run < MaxRuns
    /\ run' = run + 1
    /\ total' = 0
    /\ fi' = 1
    /\ pc' = "main_loop"
    /\ harvested' = <<>>
    /\ raisedFeeds' = {}
    /\ upserted' = 0
    /\ UNCHANGED <<configVars, ei, counts, entryVars, tries, replaceVars, storeVars,
                   net, entryHist, visited, protectedDeleted, pureVars>>

\* for url in RSS_FEEDS: try: harvest_feed(url) ... up to the entry loop
MainCallHarvest ==
    /\ pc = "main_loop"
    /\ fi <= Len(RSS_FEEDS)
    /\ pc' = "entry_loop"
    /\ ei' = 1
    /\ counts' = NoCounts
    /\ harvested' = Append(harvested, fi)
    /\ UNCHANGED <<configVars, mainVars, entryVars, tries, replaceVars, storeVars, net,
                   entryHist, visited, raisedFeeds, protectedDeleted, upserted,
                   pureVars>>

\* harvest_feed returns count_new + count_updated; main adds it to total
HarvestReturn ==
    /\ pc = "entry_loop"
    /\ ei > Len(Entries(fi))
    /\ total' = total + counts.new + counts.updated
    /\ fi' = fi + 1
    /\ pc' = "main_loop"
    /\ ei' = 1
    /\ counts' = NoCounts
    /\ visited' = {}
    /\ UNCHANGED <<configVars, run, entryVars, tries, replaceVars, storeVars, net,
                   entryHist, harvested, raisedFeeds, protectedDeleted, upserted,
                   pureVars>>

\* except Exception as e: print(...); the loop goes on with the next feed
MainExcept ==
    /\ pc = "main_except"
    /\ fi' = fi + 1
    /\ pc' = "main_loop"
    /\ ei' = 1
    /\ counts' = NoCounts
    /\ visited' = {}
    /\ NoEntryLocals
    /\ NoEntryHist
    /\ UNCHANGED <<configVars, run, total, tries, replaceVars, storeVars, net,
                   harvested, raisedFeeds, protectedDeleted, upserted,
                   pureVars>>

\* print("[done] pages upserted: ...")
MainReport ==
    /\ pc = "main_loop"
    /\ fi > Len(RSS_FEEDS)
    /\ pc' = "done"
    /\ UNCHANGED <<configVars, mainVars, ei, counts, entryVars, tries, replaceVars,
                   storeVars, net, entryHist, feedHist, protectedDeleted, upserted,
                   pureVars>>

(***************************************************************************)
(* harvest_feed: the entry loop.                                           *)
(***************************************************************************)
\* if not entry_link: count_skipped += 1; continue
EntrySkipNoLink ==
    /\ pc = "entry_loop"
    /\ ei <= Len(Entries(fi))
    /\ ~HasLink(Entries(fi)[ei])
    /\ counts' = [counts EXCEPT !.skipped = @ + 1]
    /\ pc' = "entry_next"
    /\ entry_link' = Entries(fi)[ei].link
    /\ article_blocks' = <<>>
    /\ existing_id' = -1
    /\ cur' = ei
    /\ outcomes' = <<"skip">>
    /\ calls' = {}
    /\ listCalls' = 0
    /\ skipped0' = counts.skipped
    /\ updatedOk' = FALSE
    /\ visited' = visited \cup {ei}
    /\ UNCHANGED <<configVars, mainVars, ei, tries, replaceVars, storeVars, net,
                   harvested, raisedFeeds, protectedDeleted, upserted,
                   pureVars>>

\* for entry in ...: the loop takes the next entry
EntryNext ==
    /\ pc = "entry_next"
    /\ ei' = ei + 1
    /\ pc' = "entry_loop"
    /\ NoEntryLocals
    /\ NoEntryHist
    /\ UNCHANGED <<configVars, mainVars, counts, tries, replaceVars, storeVars, net,
                   feedHist, protectedDeleted, upserted,
                   pureVars>>

\* The entry has a link: the article is extracted (the fetch may give nothing),
\* props = build_properties(...), article_blocks = markdown_to_blocks(...),
\* and query_page_by_url is called
EntryPrepare ==
    /\ pc = "entry_loop"
    /\ ei <= Len(Entries(fi))
    /\ HasLink(Entries(fi)[ei])
    /\ \E fetched \in BOOLEAN :
         /\ fetched \/ CanFail
         /\ net' = IF fetched THEN NetAfterSuccess ELSE NetAfterFailure(FALSE)
         /\ article_blocks' = ArticleBlocksOf(fetched)
    /\ entry_link' = Entries(fi)[ei].link
    /\ existing_id' = -1
    /\ pc' = "query"
    /\ tries' = NoTries
    /\ cur' = ei
    /\ outcomes' = <<>>
    /\ calls' = (IF FETCH_FULL_CONTENT THEN {"fetch"} ELSE {}) \cup {"props"}
    /\ listCalls' = 0
    /\ skipped0' = counts.skipped
    /\ updatedOk' = FALSE
    /\ visited' = visited \cup {ei}
    /\ UNCHANGED <<configVars, mainVars, ei, counts, replaceVars, storeVars, harvested,
                   raisedFeeds, protectedDeleted, upserted,
                   pureVars>>

\* query_page_by_url returns (None at once for an empty url); the entry loop
\* then creates, updates or skips
QueryOk ==
    /\ pc = "query"
    /\ \E r \in (IF entry_link = 0 THEN {0} ELSE QueryResults(entry_link)) :
         /\ existing_id' = r
         /\ outcomes' = Append(outcomes, Decision(r, ALLOW_UPDATES))
         /\ IF Decision(r, ALLOW_UPDATES) = "skip"
            THEN /\ counts' = [counts EXCEPT !.skipped = @ + 1]
                 /\ NextEntry
            ELSE /\ pc' = Decision(r, ALLOW_UPDATES)
                 /\ tries' = NoTries
                 /\ UNCHANGED <<counts, ei, replaceVars>>
    /\ listCalls' = listCalls
    /\ calls' = calls \cup (IF entry_link = 0 THEN {} ELSE {"query"})
    /\ net' = IF entry_link = 0 THEN net ELSE NetAfterSuccess
    /\ UNCHANGED <<configVars, mainVars, entry_link, article_blocks, storeVars, cur,
                   skipped0, updatedOk, feedHist, protectedDeleted, upserted,
                   pureVars>>

\* databases.query raises
QueryFail ==
    /\ pc = "query"
    /\ entry_link # 0
    /\ CanFail
    /\ net' = NetAfterFailure(FALSE)
    /\ listCalls' = listCalls
    /\ calls' = calls \cup {"query"}
    /\ RaiseIn("query")
    /\ UNCHANGED <<configVars, mainVars, ei, counts, entryVars, storeVars, cur,
                   outcomes, skipped0, updatedOk, visited, harvested, protectedDeleted,
                   upserted,
                   pureVars>>

\* create_page: pages.create succeeds; count_new += 1
CreateOk ==
    /\ pc = "create"
    /\ pages' = Append(pages, NewPage(entry_link, article_blocks))
    /\ counts' = [counts EXCEPT !.new = @ + 1]
    /\ upserted' = upserted + 1
    /\ listCalls' = listCalls
    /\ calls' = calls \cup {"create"}
    /\ NextEntry
    /\ net' = NetAfterSuccess
    /\ UNCHANGED <<configVars, mainVars, entryVars, subPages, cur, outcomes, skipped0,
                   updatedOk, feedHist, protectedDeleted, pureVars>>

\* pages.create raises: the request failed, or the page was made and the
\* answer was lost (a timeout, a dropped connection)
CreateFail ==
    /\ pc = "create"
    /\ CanFail
    /\ \E made \in BOOLEAN :
         /\ made => CanLose
         /\ net' = NetAfterFailure(made)
         /\ pages' = IF made THEN Append(pages, NewPage(entry_link, article_blocks))
                     ELSE pages
    /\ listCalls' = listCalls
    /\ calls' = calls \cup {"create"}
    /\ RaiseIn("create")
    /\ UNCHANGED <<configVars, mainVars, ei, counts, entryVars, subPages, cur, outcomes,
                   skipped0, updatedOk, visited, harvested, protectedDeleted,
                   upserted,
                   pureVars>>

(***************************************************************************)
(* update_page and replace_page_children.                                  *)
(***************************************************************************)
\* update_page returns to the entry loop: count_updated += 1
UpdateReturn ==
    /\ counts' = [counts EXCEPT !.updated = @ + 1]
    /\ upserted' = upserted + 1
    /\ updatedOk' = TRUE
    /\ NextEntry

\* pages.update succeeds; children is not None, so replace_page_children is called
UpdateMetaOk ==
    /\ pc = "update"
    /\ pc' = "list"
    /\ tries' = [tries EXCEPT !.replace = 1]
    /\ NoReplaceLocals
    /\ listCalls' = listCalls
    /\ calls' = calls \cup {"update"}
    /\ net' = NetAfterSuccess
    /\ UNCHANGED <<configVars, mainVars, ei, counts, entryVars, storeVars, cur,
                   outcomes, skipped0, updatedOk, feedHist, protectedDeleted,
                   upserted,
                   pureVars>>

\* pages.update raises
UpdateMetaFail ==
    /\ pc = "update"
    /\ CanFail
    /\ net' = NetAfterFailure(FALSE)
    /\ listCalls' = listCalls
    /\ calls' = calls \cup {"update"}
    /\ RaiseIn("update")
    /\ UNCHANGED <<configVars, mainVars, ei, counts, entryVars, storeVars, cur,
                   outcomes, skipped0, updatedOk, visited, harvested, protectedDeleted,
                   upserted,
                   pureVars>>

\* blocks.children.list returns one page of the children; the while loop goes
\* on with next_cursor as long as has_more
ListOk ==
    /\ pc = "list"
    /\ existing' = existing \o ListResults(existing_id, cursor)
    /\ IF ListHasMore(existing_id, cursor)
       THEN /\ cursor' = cursor + ListPageSize
            /\ pc' = "list"
       ELSE /\ cursor' = cursor
            /\ pc' = "delete"
    /\ di' = 1
    /\ ai' = 1
    /\ listCalls' = listCalls + (IF cursor = 0 THEN 1 ELSE 0)
    /\ calls' = calls \cup {"list"}
    /\ net' = NetAfterSuccess
    /\ UNCHANGED <<configVars, mainVars, ei, counts, entryVars, tries, storeVars, cur,
                   outcomes, skipped0, updatedOk, feedHist, protectedDeleted,
                   upserted,
                   pureVars>>

\* blocks.children.list raises
ListFail ==
    /\ pc = "list"
    /\ CanFail
    /\ net' = NetAfterFailure(FALSE)
    /\ listCalls' = listCalls + (IF cursor = 0 THEN 1 ELSE 0)
    /\ calls' = calls \cup {"list"}
    /\ RaiseInReplace
    /\ UNCHANGED <<configVars, mainVars, ei, counts, entryVars, storeVars, cur,
                   outcomes, skipped0, updatedOk, visited, harvested, protectedDeleted,
                   upserted,
                   pureVars>>

\* for child in existing: a sub-page or sub-database is passed over
DeleteSkip ==
    /\ pc = "delete"
    /\ di <= Len(existing)
    /\ IsProtected(existing[di])
    /\ di' = di + 1
    /\ UNCHANGED <<configVars, pc, mainVars, ei, counts, entryVars, tries, existing,
                   cursor, ai, storeVars, net, entryHist, feedHist, protectedDeleted,
                   upserted,
                   pureVars>>

\* blocks.delete succeeds for the child
DeleteOk ==
    /\ pc = "delete"
    /\ di <= Len(existing)
    /\ ~IsProtected(existing[di])
    /\ pages' = [pages EXCEPT ![existing_id].children = WithoutBlock(@, existing[di].id)]
    /\ protectedDeleted' = (protectedDeleted \/ existing[di].type \in SubTypes)
    /\ calls' = calls \cup {"delete"}
    /\ di' = di + 1
    /\ net' = NetAfterSuccess
    /\ UNCHANGED <<configVars, pc, mainVars, ei, counts, entryVars, tries, existing,
                   cursor, ai, subPages, cur, outcomes, listCalls, skipped0, updatedOk,
                   feedHist, upserted,
                   pureVars>>

\* blocks.delete raises (whether or not the store removed the block): the
\* handler prints a warning and the loop goes on
DeleteFail ==
    /\ pc = "delete"
    /\ di <= Len(existing)
    /\ ~IsProtected(existing[di])
    /\ CanFail
    /\ \E removed \in BOOLEAN :
         /\ removed => CanLose
         /\ net' = NetAfterFailure(removed)
         /\ pages' = IF removed
                     THEN [pages EXCEPT
                              ![existing_id].children = WithoutBlock(@, existing[di].id)]
                     ELSE pages
    /\ protectedDeleted' = (protectedDeleted \/ existing[di].type \in SubTypes)
    /\ calls' = calls \cup {"delete"}
    /\ di' = di + 1
    /\ UNCHANGED <<configVars, pc, mainVars, ei, counts, entryVars, tries, existing,
                   cursor, ai, subPages, cur, outcomes, listCalls, skipped0, updatedOk,
                   feedHist, upserted,
                   pureVars>>

\* The delete loop is over: if not children: return; else the append loop starts
DeleteDone ==
    /\ pc = "delete"
    /\ di > Len(existing)
    /\ IF article_blocks = <<>>
       THEN /\ UpdateReturn
       ELSE /\ pc' = "append"
            /\ ai' = 1
            /\ UNCHANGED <<ei, counts, tries, existing, cursor, di, updatedOk,
                           upserted>>
    /\ UNCHANGED <<configVars, mainVars, entryVars, storeVars, net, cur, outcomes,
                   calls, listCalls, skipped0, feedHist, protectedDeleted, pureVars>>

\* blocks.children.append succeeds for one chunk of at most 50 blocks; after
\* the last chunk replace_page_children and update_page return
AppendOk ==
    /\ pc = "append"
    /\ pages' = WithAppended(existing_id, ChunkBlocks(article_blocks, APPEND_SIZE)[ai])
    /\ calls' = calls \cup {"append"}
    /\ IF ai = Len(ChunkBlocks(article_blocks, APPEND_SIZE))
       THEN UpdateReturn
       ELSE /\ ai' = ai + 1
            /\ UNCHANGED <<pc, ei, counts, tries, existing, cursor, di, updatedOk,
                           upserted>>
    /\ net' = NetAfterSuccess
    /\ UNCHANGED <<configVars, mainVars, entryVars, subPages, cur, outcomes, listCalls,
                   skipped0, feedHist, protectedDeleted, pureVars>>

\* blocks.children.append raises (whether or not the store added the chunk)
AppendFail ==
    /\ pc = "append"
    /\ CanFail
    /\ \E added \in BOOLEAN :
         /\ added => CanLose
         /\ net' = NetAfterFailure(added)
         /\ pages' = IF added
                     THEN WithAppended(existing_id,
                                       ChunkBlocks(article_blocks, APPEND_SIZE)[ai])
                     ELSE pages
    /\ calls' = calls \cup {"append"}
    /\ RaiseInReplace
    /\ UNCHANGED <<configVars, mainVars, ei, counts, entryVars, subPages, cur, outcomes,
                   listCalls, skipped0, updatedOk, visited, harvested, protectedDeleted,
                   upserted,
                   pureVars>>

(***************************************************************************)
(* The users of the database: between two runs somebody nests a sub-page   *)
(* or a sub-database into a page; the store puts it after the other        *)
(* children.                                                               *)
(***************************************************************************)
AddSubPage ==
    /\ pc = "done"
    /\ run < MaxRuns
    /\ Cardinality(subPages) < MaxSubPages
    /\ \E p \in 1..Len(pages), t \in SubTypes :
         LET id == FreshIds(IdsOf(pages[p].children), 1)[1]
         IN /\ pages' = [pages EXCEPT
                            ![p].children = Append(@, [id |-> id, type |-> t, content |-> 0])]
            /\ subPages' = subPages \cup {<<p, id>>}
    /\ UNCHANGED <<configVars, pc, mainVars, ei, counts, entryVars, tries, replaceVars,
                   net, entryHist, feedHist, protectedDeleted, upserted,
                   pureVars>>

Next ==
    \/ StartRun
    \/ MainCallHarvest
    \/ HarvestReturn
    \/ MainExcept
    \/ MainReport
    \/ EntrySkipNoLink
    \/ EntryNext
    \/ EntryPrepare
    \/ QueryOk
    \/ QueryFail
    \/ CreateOk
    \/ CreateFail
    \/ UpdateMetaOk
    \/ UpdateMetaFail
    \/ ListOk
    \/ ListFail
    \/ DeleteSkip
    \/ DeleteOk
    \/ DeleteFail
    \/ DeleteDone
    \/ AppendOk
    \/ AppendFail
    \/ AddSubPage

Spec == Init /\ [][Next]_vars

(***************************************************************************)
(* The runs under a network that can fail every call.  The interpreter     *)
(* goes on executing main: a step of the program that can be taken is      *)
(* taken (every remote call returns or raises, every sleep ends).  The     *)
(* start of a run and what the users do are not steps of the program.      *)
(***************************************************************************)
\* The database before the run: empty, or with the page an earlier run made
\* for the first URL, into which a user has nested a sub-page
LiveStores ==
    { [pages |-> <<>>, subPages |-> {}],
      [pages |-> << [url |-> 1, run |-> MaxRuns - 1,
                     children |-> << [id |-> 1, type |-> "paragraph", content |-> 1],
                                     [id |-> 2, type |-> "paragraph", content |-> 2],
                                     [id |-> 3, type |-> "child_page", content |-> 0] >>] >>,
       subPages |-> {<<1, 3>>}] }

\* The feed lists of the runs: those with MaxLiveEntries entries at most,
\* no two of which link to the same URL
LiveFeedLists ==
    {feeds \in FeedLists :
        LET es == Flatten(feeds) IN
        /\ Len(es) <= MaxLiveEntries
        /\ \A i, j \in 1..Len(es) : i # j /\ es[i].link = es[j].link => es[i].link = 0}

LiveInit ==
    /\ ALLOW_UPDATES \in BOOLEAN
    /\ MAX_ITEMS \in ItemLimits
    /\ RSS_FEEDS \in LiveFeedLists
    /\ ProgramStart
    /\ run = MaxRuns - 1
    /\ \E store \in LiveStores :
         /\ pages = store.pages
         /\ subPages = store.subPages
    /\ net = [left |-> Unlimited, outages |-> 0, lost |-> MaxLiveLost, down |-> FALSE]
    /\ ChunkIdle
    /\ MdIdle
    /\ PropsIdle
    /\ ExtractIdle
    /\ BatchIdle

Program ==
    \/ MainCallHarvest
    \/ HarvestReturn
    \/ MainExcept
    \/ MainReport
    \/ EntrySkipNoLink
    \/ EntryNext
    \/ EntryPrepare
    \/ QueryOk
    \/ QueryFail
    \/ CreateOk
    \/ CreateFail
    \/ UpdateMetaOk
    \/ UpdateMetaFail
    \/ ListOk
    \/ ListFail
    \/ DeleteSkip
    \/ DeleteOk
    \/ DeleteFail
    \/ DeleteDone
    \/ AppendOk
    \/ AppendFail

LiveNext ==
    \/ StartRun
    \/ Program

LiveSpec == LiveInit /\ [][LiveNext]_vars /\ WF_vars(Program)

(***************************************************************************)
(* chunk_text and to_rich_text.  A text is a sequence of characters; the   *)
(* generator yields text[idx : idx + chunk_size] for idx = 0, chunk_size,  *)
(* 2 * chunk_size, ... below len(text), and to_rich_text collects one run  *)
(* per chunk.  The block constructors call to_rich_text(text) with the     *)
(* default chunk size.                                                     *)
(***************************************************************************)
Chars == {0, 1}

ShortTexts == SeqsUpTo(Chars, MaxTextLen)

\* Texts around one and two chunks of the default size
LongLens ==
    {DEFAULT_CHUNK_SIZE - 1, DEFAULT_CHUNK_SIZE, DEFAULT_CHUNK_SIZE + 1,
     2 * DEFAULT_CHUNK_SIZE, 2 * DEFAULT_CHUNK_SIZE + 1}

LongText(n) == [i \in 1..n |-> (i * i) % 3]

\* A slice that runs one character over
ChunkAtOverlong(t, i, size) == PySlice(t, i, i + size + 1)

\* text[idx : idx + chunk_size]
ChunkAt(t, i, size) == PySlice(t, i, i + size)

ChunkInit ==
    /\ ALLOW_UPDATES = TRUE
    /\ MAX_ITEMS = 1
    /\ RSS_FEEDS = <<<<>>>>
    /\ SyncStart
    /\ MdIdle
    /\ PropsIdle
    /\ ExtractIdle
    /\ BatchIdle
    /\ \/ /\ text \in ShortTexts
          /\ chunk_size \in 1..MaxChunkSize
       \/ /\ text \in ShortTexts \cup {LongText(n) : n \in LongLens}
          /\ chunk_size = DEFAULT_CHUNK_SIZE
    /\ idx = 0
    /\ chunks = <<>>
    /\ cpc = "loop"

\* for idx in range(0, len(text), chunk_size): yield text[idx : idx + chunk_size]
ChunkYield ==
    /\ cpc = "loop"
    /\ idx < Len(text)
    /\ chunks' = Append(chunks, ChunkAt(text, idx, chunk_size))
    /\ idx' = idx + chunk_size
    /\ UNCHANGED <<syncVars, mdVars, propVars, extractVars, batchVars, text,
                   chunk_size, cpc>>

\* The range is exhausted: to_rich_text returns the list of runs
ChunkReturn ==
    /\ cpc = "loop"
    /\ idx >= Len(text)
    /\ cpc' = "done"
    /\ UNCHANGED <<syncVars, mdVars, propVars, extractVars, batchVars, text,
                   chunk_size, idx, chunks>>

ChunkNext ==
    \/ ChunkYield
    \/ ChunkReturn

ChunkSpec == ChunkInit /\ [][ChunkNext]_vars

(***************************************************************************)
(* markdown_to_blocks.  A string is the sequence of its characters.        *)
(***************************************************************************)
\* The characters str.strip() removes, as far as the inputs have them
Whitespace == {" ", "\n", "\t", "\r"}

Digits == {"0", "1", "2", "3", "4", "5", "6", "7", "8", "9"}

\* The backtick (a TLA+ string cannot hold the character itself)
Tick == "'"

\* Three backticks
Fence == <<Tick, Tick, Tick>>

\* The number of characters of S the string begins with
LeadCount(s, S) ==
    CHOOSE k \in 0..Len(s) :
        /\ \A i \in 1..k : s[i] \in S
        /\ k = Len(s) \/ s[k + 1] \notin S

\* The number of characters of S the string ends with
TrailCount(s, S) ==
    CHOOSE k \in 0..Len(s) :
        /\ \A i \in (Len(s) - k + 1)..Len(s) : s[i] \in S
        /\ k = Len(s) \/ s[Len(s) - k] \notin S

\* s.lstrip(chars), s.rstrip(chars), s.strip(chars)
LStripSet(s, S) == SubSeq(s, LeadCount(s, S) + 1, Len(s))

RStripSet(s, S) == SubSeq(s, 1, Len(s) - TrailCount(s, S))

StripSet(s, S) == RStripSet(LStripSet(s, S), S)

\* s.strip()
Strip(s) == StripSet(s, Whitespace)

\* s.startswith(prefix)
StartsWith(s, prefix) == Len(s) >= Len(prefix) /\ SubSeq(s, 1, Len(prefix)) = prefix

\* sep.join(ss)
RECURSIVE Join(_, _)
Join(sep, ss) ==
    IF ss = <<>> THEN <<>>
    ELSE IF Len(ss) = 1 THEN ss[1]
    ELSE ss[1] \o sep \o Join(sep, Tail(ss))

\* s.splitlines(), for the line boundary "\n": no empty last line after a final
\* boundary, no line at all for the empty string
RECURSIVE SplitLines(_)
SplitLines(s) ==
    IF s = <<>> THEN <<>>
    ELSE LET nl == {i \in 1..Len(s) : s[i] = "\n"}
         IN  IF nl = {} THEN <<s>>
             ELSE LET k == CHOOSE i \in nl : \A j \in nl : i <= j
                  IN  <<SubSeq(s, 1, k - 1)>> \o SplitLines(SubSeq(s, k + 1, Len(s)))

\* The block constructors; of a block the model keeps its type, the level of a
\* heading, the text handed to to_rich_text and the language of a code block
ParagraphBlock(t) ==
    [type |-> "paragraph", level |-> 0, text |-> t, language |-> <<>>]

\* level = min(max(level, 1), 3)
HeadingBlock(level, t) ==
    [type |-> "heading", level |-> Min(Max(level, 1), 3), text |-> t,
     language |-> <<>>]

ListItemBlock(block_type, t) ==
    [type |-> block_type, level |-> 0, text |-> t, language |-> <<>>]

QuoteBlock(t) ==
    [type |-> "quote", level |-> 0, text |-> t, language |-> <<>>]

\* "language": language or "plain text"
CodeBlock(t, language) ==
    [type |-> "code", level |-> 0, text |-> t,
     language |-> IF language = <<>> THEN PlainText ELSE language]

\* stripped.startswith(three backticks)
IsFence(stripped) == StartsWith(stripped, Fence)

\* A fence whose language token is ignored
FenceLanguageNone(stripped) == PlainText

\* stripped.strip(backtick).strip() or "plain text"
FenceLanguage(stripped) ==
    LET token == Strip(StripSet(stripped, {Tick}))
    IN  IF token = <<>> THEN PlainText ELSE token

\* len(heading_match.group(1)) of re.match(r"^(#{1,6})\s+(.*)$", stripped)
HashCount(stripped) == LeadCount(stripped, {"#"})

\* A heading that is recognised only down to level 3
IsHeadingUpToThree(stripped) ==
    /\ HashCount(stripped) \in 1..3
    /\ Len(stripped) > HashCount(stripped)
    /\ stripped[HashCount(stripped) + 1] \in Whitespace

\* re.match(r"^(#{1,6})\s+(.*)$", stripped)
IsHeading(stripped) ==
    /\ HashCount(stripped) \in 1..6
    /\ Len(stripped) > HashCount(stripped)
    /\ stripped[HashCount(stripped) + 1] \in Whitespace

\* level = min(len(heading_match.group(1)), 3)
HeadingLevel(stripped) == Min(HashCount(stripped), 3)

\* heading_match.group(2).strip()
HeadingContent(stripped) ==
    Strip(SubSeq(stripped, HashCount(stripped) + 1, Len(stripped)))

\* re.match(r"^[-*]\s+", stripped)
IsBullet(stripped) ==
    /\ Len(stripped) >= 2
    /\ stripped[1] \in {"-", "*"}
    /\ stripped[2] \in Whitespace

\* re.sub(r"^[-*]\s+", "", stripped).strip()
BulletContent(stripped) == Strip(SubSeq(stripped, 2, Len(stripped)))

\* re.match(r"^\d+\.\s+", stripped)
IsNumbered(stripped) ==
    LET d == LeadCount(stripped, Digits)
    IN  /\ d >= 1
        /\ Len(stripped) >= d + 2
        /\ stripped[d + 1] = "."
        /\ stripped[d + 2] \in Whitespace

\* re.sub(r"^\d+\.\s+", "", stripped).strip()
NumberedContent(stripped) ==
    Strip(SubSeq(stripped, LeadCount(stripped, Digits) + 2, Len(stripped)))

\* stripped.startswith(">")
IsQuote(stripped) == StartsWith(stripped, <<">">>)

\* stripped.lstrip(">").strip()
QuoteContent(stripped) == Strip(LStripSet(stripped, {">"}))

\* markdown.splitlines()
MdLines == SplitLines(markdown)

\* raw_line of the current iteration, line = raw_line.rstrip("\n"), line.strip()
RawLine == MdLines[li]

Line == RStripSet(RawLine, {"\n"})

Stripped == Strip(Line)

\* blocks, with the line each block was emitted at
Out == [blocks |-> md_blocks, origin |-> origin]

\* blocks.append(b)
Emit(out, b, at) ==
    [blocks |-> Append(out.blocks, b), origin |-> Append(out.origin, at)]

\* A flush that joins the lines without the space
ParagraphTextUnspaced(buffer) == Strip(Join(<<>>, buffer))

\* paragraph_text = " ".join(paragraph_buffer).strip()
ParagraphText(buffer) == Strip(Join(<<" ">>, buffer))

\* flush_paragraph, but for the clearing of the buffer
FlushedParagraph(out, at) ==
    IF paragraph_buffer = <<>> THEN out
    ELSE IF ParagraphText(paragraph_buffer) # <<>>
         THEN Emit(out, ParagraphBlock(ParagraphText(paragraph_buffer)), at)
         ELSE out

\* code_text = "\n".join(code_buffer).rstrip("\n")
CodeText(buffer) == RStripSet(Join(<<"\n">>, buffer), {"\n"})

\* flush_code, but for the clearing of the buffer and of in_code
FlushedCode(out, at) ==
    IF code_buffer = <<>> THEN out
    ELSE IF CodeText(code_buffer) # <<>>
         THEN Emit(out, CodeBlock(CodeText(code_buffer), code_language), at)
         ELSE out

\* A compiler without the last resort
FallbackNone(out, at) == out

\* if not blocks: blocks.append(_paragraph_block(markdown.strip()))
Fallback(out, at) ==
    IF out.blocks = <<>> THEN Emit(out, ParagraphBlock(Strip(markdown)), at) ELSE out

SetOut(out) ==
    /\ md_blocks' = out.blocks
    /\ origin' = out.origin

\* The inputs: every short string over MdChars, and every document of up to
\* MaxMdLines of the SampleLines, with and without a final line boundary
MdChars == {"a", "#", Tick, " ", "\n", ">"}

ShortMarkdowns == SeqsUpTo(MdChars, MaxMdLen)

SampleLines ==
    { <<>>,
      <<" ", " ">>,
      <<" ", "a", " ">>,
      <<"b", " ", "c">>,
      <<"#", " ", "a">>,
      <<"#", "#", "#", "#", "#", "#", " ", "a">>,
      <<"#", "#", "#", "#", "#", "#", "#", " ", "a">>,
      <<Tick, Tick, Tick>>,
      <<" ", Tick, Tick, Tick, "p", "y">>,
      <<Tick, Tick, Tick, "a", Tick>>,
      <<"-", " ", "a">>,
      <<"1", ".", " ", "a">>,
      <<">", " ", "a">>,
      <<">">> }

SampleMarkdowns ==
    {Join(<<"\n">>, ls) \o end :
        ls \in SeqsUpTo(SampleLines, MaxMdLines), end \in {<<>>, <<"\n">>}}

\* The upsert part at rest
SyncOff ==
    /\ ALLOW_UPDATES = TRUE
    /\ MAX_ITEMS = 1
    /\ RSS_FEEDS = <<<<>>>>
    /\ SyncStart

MdInit ==
    /\ SyncOff
    /\ ChunkIdle
    /\ PropsIdle
    /\ ExtractIdle
    /\ BatchIdle
    /\ markdown \in ShortMarkdowns \cup SampleMarkdowns
    /\ li = 1
    /\ md_blocks = <<>>
    /\ paragraph_buffer = <<>>
    /\ code_buffer = <<>>
    /\ in_code = FALSE
    /\ code_language = PlainText
    /\ origin = <<>>
    /\ fellBack = FALSE
    /\ mpc = "start"

MdOthers == <<syncVars, chunkVars, propVars, extractVars, batchVars>>

\* if not markdown: return []
MdReturnEmpty ==
    /\ mpc = "start"
    /\ markdown = <<>>
    /\ mpc' = "done"
    /\ UNCHANGED <<MdOthers, markdown, li, md_blocks, paragraph_buffer, code_buffer,
                   in_code, code_language, origin, fellBack>>

\* The locals are set up and the loop over the lines begins
MdStart ==
    /\ mpc = "start"
    /\ markdown # <<>>
    /\ mpc' = "scan"
    /\ UNCHANGED <<MdOthers, markdown, li, md_blocks, paragraph_buffer, code_buffer,
                   in_code, code_language, origin, fellBack>>

AtLine == mpc = "scan" /\ li <= Len(MdLines)

\* in_code, not a fence: code_buffer.append(raw_line)
MdCodeLine ==
    /\ AtLine
    /\ in_code
    /\ ~IsFence(Strip(Line))
    /\ code_buffer' = Append(code_buffer, RawLine)
    /\ li' = li + 1
    /\ UNCHANGED <<MdOthers, markdown, md_blocks, paragraph_buffer, in_code,
                   code_language, origin, fellBack, mpc>>

\* in_code, a fence: flush_code()
MdCodeClose ==
    /\ AtLine
    /\ in_code
    /\ IsFence(Strip(Line))
    /\ SetOut(FlushedCode(Out, li))
    /\ code_buffer' = <<>>
    /\ in_code' = FALSE
    /\ li' = li + 1
    /\ UNCHANGED <<MdOthers, markdown, paragraph_buffer, code_language, fellBack, mpc>>

\* if not stripped: flush_paragraph()
MdBlank ==
    /\ AtLine
    /\ ~in_code
    /\ Stripped = <<>>
    /\ SetOut(FlushedParagraph(Out, li))
    /\ paragraph_buffer' = <<>>
    /\ li' = li + 1
    /\ UNCHANGED <<MdOthers, markdown, code_buffer, in_code, code_language, fellBack,
                   mpc>>

\* An opening fence
MdFenceOpen ==
    /\ AtLine
    /\ ~in_code
    /\ Stripped # <<>>
    /\ IsFence(Stripped)
    /\ SetOut(FlushedParagraph(Out, li))
    /\ paragraph_buffer' = <<>>
    /\ in_code' = TRUE
    /\ code_language' = FenceLanguage(Stripped)
    /\ code_buffer' = <<>>
    /\ li' = li + 1
    /\ UNCHANGED <<MdOthers, markdown, fellBack, mpc>>

\* None of the cases before the heading applies
PastFence == AtLine /\ ~in_code /\ Stripped # <<>> /\ ~IsFence(Stripped)

\* flush_paragraph(), then the block of the structural line if it has content
Structural(content, b) ==
    /\ SetOut(IF content # <<>>
              THEN Emit(FlushedParagraph(Out, li), b, li)
              ELSE FlushedParagraph(Out, li))
    /\ paragraph_buffer' = <<>>
    /\ li' = li + 1
    /\ UNCHANGED <<MdOthers, markdown, code_buffer, in_code, code_language, fellBack,
                   mpc>>

MdHeading ==
    /\ PastFence
    /\ IsHeading(Stripped)
    /\ Structural(HeadingContent(Stripped),
                  HeadingBlock(HeadingLevel(Stripped), HeadingContent(Stripped)))

MdBullet ==
    /\ PastFence
    /\ ~IsHeading(Stripped)
    /\ IsBullet(Stripped)
    /\ Structural(BulletContent(Stripped),
                  ListItemBlock("bulleted_list_item", BulletContent(Stripped)))

MdNumbered ==
    /\ PastFence
    /\ ~IsHeading(Stripped)
    /\ ~IsBullet(Stripped)
    /\ IsNumbered(Stripped)
    /\ Structural(NumberedContent(Stripped),
                  ListItemBlock("numbered_list_item", NumberedContent(Stripped)))

MdQuote ==
    /\ PastFence
    /\ ~IsHeading(Stripped)
    /\ ~IsBullet(Stripped)
    /\ ~IsNumbered(Stripped)
    /\ IsQuote(Stripped)
    /\ Structural(QuoteContent(Stripped), QuoteBlock(QuoteContent(Stripped)))

\* paragraph_buffer.append(stripped)
MdPlain ==
    /\ PastFence
    /\ ~IsHeading(Stripped)
    /\ ~IsBullet(Stripped)
    /\ ~IsNumbered(Stripped)
    /\ ~IsQuote(Stripped)
    /\ paragraph_buffer' = Append(paragraph_buffer, Stripped)
    /\ li' = li + 1
    /\ UNCHANGED <<MdOthers, markdown, md_blocks, code_buffer, in_code, code_language,
                   origin, fellBack, mpc>>

\* An end of input that forgets the open code buffer
AfterFlushesNoCode == FlushedParagraph(Out, li)

\* blocks once the loop is over and both buffers are flushed
AfterFlushes ==
    FlushedParagraph(IF in_code THEN FlushedCode(Out, li) ELSE Out, li)

\* The loop is over: if in_code: flush_code(); flush_paragraph(); the last
\* resort; return blocks
MdEnd ==
    /\ mpc = "scan"
    /\ li > Len(MdLines)
    /\ fellBack' = (AfterFlushes.blocks = <<>>)
    /\ SetOut(Fallback(AfterFlushes, li))
    /\ paragraph_buffer' = <<>>
    /\ code_buffer' = IF in_code THEN <<>> ELSE code_buffer
    /\ in_code' = FALSE
    /\ mpc' = "done"
    /\ UNCHANGED <<MdOthers, markdown, li, code_language>>

MdNext ==
    \/ MdReturnEmpty
    \/ MdStart
    \/ MdCodeLine
    \/ MdCodeClose
    \/ MdBlank
    \/ MdFenceOpen
    \/ MdHeading
    \/ MdBullet
    \/ MdNumbered
    \/ MdQuote
    \/ MdPlain
    \/ MdEnd

MdSpec == MdInit /\ [][MdNext]_vars

(***************************************************************************)
(* build_properties: the Published property (lines 256-270) and to_iso     *)
(* (lines 100-106).                                                        *)
(***************************************************************************)

\* The keys of the entry the publish date is looked up in, lines 260-262
DateFields == {"published", "updated", "created"}

\* What entry.get(key) can be: None (no such key), the empty string, a
\* string dateutil cannot parse, a number too large for a date, and dates
\* in the forms feeds carry (RFC 822, ISO 8601 with Z, a bare day)
DateValues ==
    { "None", "", " ", "not a date", "99999999999999999999",
      "Mon, 01 Jan 2024 10:00:00 GMT", "2024-01-02T03:04:05Z", "2024-01-03" }

\* bool(dt_str) of line 101
Truthy(s) == s \notin {"None", ""}

\* dateparser.parse(dt_str).isoformat(), line 104: the ISO 8601 form of the
\* date, or the exception dateutil raises (ParserError, OverflowError)
ParseIsoformat(dt_str) ==
    CASE dt_str = "Mon, 01 Jan 2024 10:00:00 GMT" ->
            [raised |-> "None", value |-> "2024-01-01T10:00:00+00:00"]
      [] dt_str = "2024-01-02T03:04:05Z" ->
            [raised |-> "None", value |-> "2024-01-02T03:04:05+00:00"]
      [] dt_str = "2024-01-03" ->
            [raised |-> "None", value |-> "2024-01-03T00:00:00"]
      [] dt_str = "99999999999999999999" ->
            [raised |-> "OverflowError", value |-> "None"]
      [] OTHER ->
            [raised |-> "ParserError", value |-> "None"]

\* A to_iso without its try / except
ToIsoUncaught(dt_str) ==
    IF ~Truthy(dt_str)
    THEN [raised |-> "None", value |-> "None"]
    ELSE ParseIsoformat(dt_str)

\* to_iso, lines 100-106
ToIso(dt_str) ==
    IF ~Truthy(dt_str)
    THEN [raised |-> "None", value |-> "None"]
    ELSE IF ParseIsoformat(dt_str).raised # "None"
         THEN [raised |-> "None", value |-> "None"]
         ELSE ParseIsoformat(dt_str)

\* {"start": published} if published else None, line 269
DateProperty(p) == IF Truthy(p) THEN <<"start", p>> ELSE <<>>

PropsOthers == <<syncVars, chunkVars, mdVars, extractVars, batchVars>>

PropsInit ==
    /\ SyncOff
    /\ ChunkIdle
    /\ MdIdle
    /\ ExtractIdle
    /\ BatchIdle
    /\ dates \in [DateFields -> DateValues]
    /\ published = "None"
    /\ date_prop = <<>>
    /\ ppc = "published"

\* One operand of the or-chain of lines 259-263: the chain ends with the
\* first operand that is truthy, or with the last operand
Operand(key, next) ==
    LET r == ToIso(dates[key]) IN
    /\ IF r.raised # "None"
       THEN /\ ppc' = "raised"
            /\ UNCHANGED published
       ELSE /\ published' = r.value
            /\ ppc' = IF Truthy(r.value) THEN "build" ELSE next
    /\ UNCHANGED <<PropsOthers, dates, date_prop>>

\* line 260
PropsPublished ==
    /\ ppc = "published"
    /\ Operand("published", "updated")

\* line 261
PropsUpdated ==
    /\ ppc = "updated"
    /\ Operand("updated", "created")

\* line 262
PropsCreated ==
    /\ ppc = "created"
    /\ Operand("created", "build")

\* line 269
PropsBuild ==
    /\ ppc = "build"
    /\ date_prop' = DateProperty(published)
    /\ ppc' = "done"
    /\ UNCHANGED <<PropsOthers, dates, published>>

PropsNext ==
    \/ PropsPublished
    \/ PropsUpdated
    \/ PropsCreated
    \/ PropsBuild

PropsSpec == PropsInit /\ [][PropsNext]_vars

(***************************************************************************)
(* extract_article_markdown (lines 333-375), with _normalize_html_value    *)
(* (lines 298-316), fetch_article_html (lines 319-330) and                 *)
(* clean_html_for_markdown (lines 64-94).                                  *)
(***************************************************************************)

\* The longest content list of an entry
MaxContent == 2

\* HTML fragments a feed carries in content[*].value, summary_detail.value
\* and summary: nothing, a script, an empty paragraph, two paragraphs, and
\* markup nested too deep for the converter
HtmlValues ==
    { "", "<script>s</script>", "<p> </p>", "<p>a</p>", "<p>b</p>", "<deep>" }

\* summary_detail.type values
DetailTypes == {"text/html", "TEXT/HTML; charset=utf-8", "text/plain"}

\* What the article URL answers: no answer (a requests.RequestException),
\* an empty body, or a page
PageValues ==
    { "RequestException", "", "<html><p>A</p></html>", "<html><nav/></html>",
      "<html><p> </p></html>", "<html><deep></html>", "<html" }

EntryValues ==
    [ link : {"", "https://x/1"},
      content : SeqsUpTo(HtmlValues, MaxContent),
      summary_detail : {<<>>} \cup (DetailTypes \X HtmlValues),
      summary : {"None"} \cup HtmlValues ]

\* summary_detail.get("type", "").lower().startswith("text/html"), line 309
DeclaresHtml(type) == type \in {"text/html", "TEXT/HTML; charset=utf-8"}

\* _normalize_html_value, lines 298-316
NormalizeHtmlValue(entry) ==
    LET content == SelectSeq(entry.content, LAMBDA value : value # "")
        detail  == IF /\ entry.summary_detail # <<>>
                      /\ DeclaresHtml(entry.summary_detail[1])
                      /\ entry.summary_detail[2] # ""
                   THEN <<entry.summary_detail[2]>>
                   ELSE <<>>
        summary == IF entry.summary \notin {"None", ""}
                   THEN <<entry.summary>>
                   ELSE <<>>
    IN  content \o detail \o summary

\* fetch_article_html, lines 319-330: resp.text, or None when requests raised
FetchArticleHtml(page) == IF page = "RequestException" THEN "None" ELSE page

\* Document(html).summary(), lines 351-352: the article readability finds in
\* the page, or the exception it raises on a page it cannot parse
DocumentSummary(page) ==
    CASE page = "<html><p>A</p></html>" -> [raised |-> FALSE, value |-> "<p>A</p>"]
      [] page = "<html><p> </p></html>" -> [raised |-> FALSE, value |-> "<p> </p>"]
      [] page = "<html><deep></html>"   -> [raised |-> FALSE, value |-> "<deep>"]
      [] page = "<html><nav/></html>"   -> [raised |-> FALSE, value |-> ""]
      [] OTHER                          -> [raised |-> TRUE,  value |-> ""]

\* clean_html_for_markdown, lines 64-94
CleanHtmlForMarkdown(h) == IF h = "<script>s</script>" THEN "" ELSE h

\* html_to_markdown(cleaned_html, heading_style="ATX", strip=['img']), the
\* markdownify conversion; it raises on markup nested too deep
HtmlToMarkdown(h) ==
    CASE h = "<p>A</p>" -> [raised |-> FALSE, value |-> "A\n\n"]
      [] h = "<p>a</p>" -> [raised |-> FALSE, value |-> "a\n\n"]
      [] h = "<p>b</p>" -> [raised |-> FALSE, value |-> "b\n\n"]
      [] h = "<p> </p>" -> [raised |-> FALSE, value |-> " \n\n"]
      [] h = "<deep>"   -> [raised |-> TRUE,  value |-> ""]
      [] OTHER          -> [raised |-> FALSE, value |-> ""]

\* str.strip() of the converted markdown
StripMarkdown(m) ==
    CASE m = "A\n\n" -> "A"
      [] m = "a\n\n" -> "a"
      [] m = "b\n\n" -> "b"
      [] m = " \n\n" -> ""
      [] OTHER       -> m

\* lines 366-367 and 354-355: clean, convert, strip
ToMarkdown(h) ==
    LET r == HtmlToMarkdown(CleanHtmlForMarkdown(h)) IN
    [raised |-> r.raised, value |-> StripMarkdown(r.value)]

\* A try statement without its except clause
TryNoExcept(r) == r

\* try: ... except Exception: (lines 349 and 359, 365 and 371): an exception
\* of the body is logged and the body has yielded nothing
TryExcept(r) == IF r.raised THEN [raised |-> FALSE, value |-> ""] ELSE r

\* lines 349-360: the markdown of the article of the page, "" when there is
\* none
ArticleMarkdown(page) ==
    LET doc == DocumentSummary(page) IN
    TryExcept(IF doc.raised \/ doc.value = ""
              THEN [raised |-> doc.raised, value |-> ""]
              ELSE ToMarkdown(doc.value))

\* lines 365-373: the markdown of one candidate of the fallback loop
CandidateMarkdown(candidate) == TryExcept(ToMarkdown(candidate))

ExtractOthers == <<syncVars, chunkVars, mdVars, propVars, batchVars>>

ExtractInit ==
    /\ SyncOff
    /\ ChunkIdle
    /\ MdIdle
    /\ PropsIdle
    /\ BatchIdle
    /\ feed_entry \in EntryValues
    /\ has_document \in BOOLEAN
    /\ page_html \in PageValues
    /\ html = "None"
    /\ ci = 1
    /\ extracted = "None"
    /\ tried = <<>>
    /\ xpc = "start"

\* lines 334-337: an entry without link has no article to fetch
XNoUrl ==
    /\ xpc = "start"
    /\ feed_entry.link = ""
    /\ xpc' = "fallback"
    /\ UNCHANGED <<ExtractOthers, feed_entry, has_document, page_html, html, ci,
                   extracted, tried>>

\* lines 337-338
XFetch ==
    /\ xpc = "start"
    /\ feed_entry.link # ""
    /\ html' = FetchArticleHtml(page_html)
    /\ tried' = Append(tried, "fetch")
    /\ xpc' = "fetched"
    /\ UNCHANGED <<ExtractOthers, feed_entry, has_document, page_html, ci, extracted>>

\* lines 339-347: nothing fetched, or no readability
XNoArticle ==
    /\ xpc = "fetched"
    /\ html \in {"None", ""} \/ ~has_document
    /\ xpc' = "fallback"
    /\ UNCHANGED <<ExtractOthers, feed_entry, has_document, page_html, html, ci,
                   extracted, tried>>

\* lines 348-360
XReadability ==
    /\ xpc = "fetched"
    /\ html \notin {"None", ""}
    /\ has_document
    /\ tried' = Append(tried, "article")
    /\ LET r == ArticleMarkdown(html) IN
       IF r.raised
       THEN /\ xpc' = "raised"
            /\ UNCHANGED extracted
       ELSE IF r.value # ""
            THEN /\ extracted' = r.value
                 /\ xpc' = "done"
            ELSE /\ xpc' = "fallback"
                 /\ UNCHANGED extracted
    /\ UNCHANGED <<ExtractOthers, feed_entry, has_document, page_html, html, ci>>

\* lines 364-373: one candidate of the fallback loop
XCandidate ==
    /\ xpc = "fallback"
    /\ ci <= Len(NormalizeHtmlValue(feed_entry))
    /\ LET candidate == NormalizeHtmlValue(feed_entry)[ci]
           r == CandidateMarkdown(candidate)
       IN  /\ tried' = Append(tried, candidate)
           /\ IF r.raised
              THEN /\ xpc' = "raised"
                   /\ UNCHANGED <<extracted, ci>>
              ELSE IF r.value # ""
                   THEN /\ extracted' = r.value
                        /\ xpc' = "done"
                        /\ UNCHANGED ci
                   ELSE /\ ci' = ci + 1
                        /\ UNCHANGED <<extracted, xpc>>
    /\ UNCHANGED <<ExtractOthers, feed_entry, has_document, page_html, html>>

\* line 375
XReturnNone ==
    /\ xpc = "fallback"
    /\ ci > Len(NormalizeHtmlValue(feed_entry))
    /\ extracted' = "None"
    /\ xpc' = "done"
    /\ UNCHANGED <<ExtractOthers, feed_entry, has_document, page_html, html, ci, tried>>

ExtractNext ==
    \/ XNoUrl
    \/ XFetch
    \/ XNoArticle
    \/ XReadability
    \/ XCandidate
    \/ XReturnNone

ExtractSpec == ExtractInit /\ [][ExtractNext]_vars

(***************************************************************************)
(* replace_page_children: one attempt of the append loop (lines 424-428)   *)
(* over the generator _chunk_blocks (lines 399-401).                       *)
(***************************************************************************)

\* The longest new block sequence
MaxChildren == 101

\* The new block sequences: block k of the sequence is written k
ChildrenValues == {[k \in 1..n |-> k] : n \in 0..MaxChildren}

\* A slice that takes one block more than size
BlocksAtOverlong(blocks, i, size) == PySlice(blocks, i, i + size + 1)

\* blocks[idx : idx + size], line 401
BlocksAt(blocks, i, size) == PySlice(blocks, i, i + size)

BatchOthers == <<syncVars, chunkVars, mdVars, propVars, extractVars>>

BatchInit ==
    /\ SyncOff
    /\ ChunkIdle
    /\ MdIdle
    /\ PropsIdle
    /\ ExtractIdle
    /\ new_children \in ChildrenValues
    /\ batch_size = APPEND_SIZE
    /\ bidx = 0
    /\ appended = <<>>
    /\ bpc = "start"

\* lines 424-425: nothing to append
BatchNoChildren ==
    /\ bpc = "start"
    /\ new_children = <<>>
    /\ bpc' = "done"
    /\ UNCHANGED <<BatchOthers, new_children, batch_size, bidx, appended>>

\* line 427: the generator is created with size=50; range starts at 0
BatchEnter ==
    /\ bpc = "start"
    /\ new_children # <<>>
    /\ bidx' = 0
    /\ bpc' = "loop"
    /\ UNCHANGED <<BatchOthers, new_children, batch_size, appended>>

\* lines 400-401 and 428: the next chunk is yielded and appended
BatchAppendOk ==
    /\ bpc = "loop"
    /\ bidx < Len(new_children)
    /\ appended' = Append(appended, BlocksAt(new_children, bidx, batch_size))
    /\ bidx' = bidx + batch_size
    /\ UNCHANGED <<BatchOthers, new_children, batch_size, bpc>>

\* line 428: the append call raises, which ends the attempt
BatchAppendRaises ==
    /\ bpc = "loop"
    /\ bidx < Len(new_children)
    /\ appended' = Append(appended, BlocksAt(new_children, bidx, batch_size))
    /\ bpc' = "raised"
    /\ UNCHANGED <<BatchOthers, new_children, batch_size, bidx>>

\* line 400: the range is exhausted
BatchReturn ==
    /\ bpc = "loop"
    /\ bidx >= Len(new_children)
    /\ bpc' = "done"
    /\ UNCHANGED <<BatchOthers, new_children, batch_size, bidx, appended>>

BatchNext ==
    \/ BatchNoChildren
    \/ BatchEnter
    \/ BatchAppendOk
    \/ BatchAppendRaises
    \/ BatchReturn

BatchSpec == BatchInit /\ [][BatchNext]_vars

(***************************************************************************)
(* Properties.                                                             *)
(***************************************************************************)
\* The entry the history is about has a link for which a run before this one
\* created a page
EarlierRunCreated ==
    /\ cur # 0
    /\ entry_link # 0
    /\ \E p \in 1..Len(pages) : pages[p].url = entry_link /\ pages[p].run < run

LookupReturned == existing_id # -1

\* The iteration of the entry the history is about is over, by reaching its
\* end or by an exception
IterationOver == cur # 0 /\ pc \in {"entry_next", "main_except", "crashed"}

PagesOf(u) == {p \in 1..Len(pages) : pages[p].url = u}

\* C2: at any time the store holds at most one page created by this program
\* for any one URL.
C2_AtMostOnePagePerUrl ==
    \A u \in 1..NumUrls : Cardinality(PagesOf(u)) <= 1

\* C3: the outcomes chosen for an entry follow the table: no link -> skip;
\* link and the lookup returned no page -> create; link, a page found and
\* updates allowed -> update of the page found; link, a page found and
\* updates not allowed -> skip.  At no time has an entry more than one outcome,
\* and create is never chosen when the lookup returned a page.
C3_DecisionTable ==
    cur # 0 =>
        /\ Len(outcomes) <= 1
        /\ entry_link = 0 => outcomes = <<"skip">>
        /\ (entry_link # 0 /\ ~LookupReturned) => outcomes = <<>>
        /\ (entry_link # 0 /\ existing_id = 0) => outcomes = <<"create">>
        /\ (entry_link # 0 /\ existing_id > 0) =>
               /\ pages[existing_id].url = entry_link
               /\ outcomes = IF ALLOW_UPDATES THEN <<"update">> ELSE <<"skip">>

C3_Witness ==
    /\ cur # 0
    /\ entry_link # 0
    /\ existing_id > 0
    /\ ~ALLOW_UPDATES
    /\ outcomes = <<"skip">>
    /\ pc = "entry_next"

\* C4: an entry without a link is counted as skipped, and nothing else is done
\* for it: no fetch, no build_properties, no call of the remote store.
C4_NoLinkOnlySkipped ==
    (cur # 0 /\ Entries(fi)[cur].link = 0) =>
        /\ outcomes = <<"skip">>
        /\ counts.skipped = skipped0 + 1
        /\ calls = {}
        /\ pc = "entry_next"

C4_Witness ==
    /\ cur = 2
    /\ Entries(fi)[cur].link = 0
    /\ pc = "entry_next"
    /\ counts.skipped = 1

\* C5: when the processing of an entry has failed, the entries after it (within
\* MAX_ITEMS) are still processed: harvest_feed does not end before the
\* iteration of every entry has begun.
C5_LaterEntriesProcessed ==
    pc = "main_except" => visited = 1..Len(Entries(fi))

\* C6: an exception of harvest_feed never ends the run: main is never left by
\* an exception, harvest_feed is called for the feeds in order, after a feed has
\* ended either way the loop is at the next feed, and the report is made only
\* after harvest_feed has been called for every feed.
C6_FeedFailureDoesNotEndRun ==
    /\ pc # "crashed"
    /\ harvested = [k \in 1..Len(harvested) |-> k]
    /\ pc = "main_loop" => Len(harvested) = fi - 1
    /\ pc = "done" => Len(harvested) = Len(RSS_FEEDS)
    /\ pc \in {"idle", "done"} \/ ENABLED Next

C6_Witness ==
    /\ pc = "done"
    /\ 1 \in raisedFeeds
    /\ harvested = <<1, 2>>

\* C7: while one entry is processed no call point of the remote store is
\* attempted more than five times.
C7_AtMostFiveAttempts ==
    /\ listCalls <= MAX_TRIES
    /\ \A f \in DOMAIN tries : tries[f] <= MAX_TRIES

\* C8: no delete call is ever issued for a sub-page or a sub-database, and
\* every sub-page and sub-database nested into a page stays a child of it.
C8_SubPagesKept ==
    /\ ~protectedDeleted
    /\ \A sp \in subPages :
         \E i \in 1..Len(pages[sp[1]].children) :
            /\ pages[sp[1]].children[i].id = sp[2]
            /\ pages[sp[1]].children[i].type \in SubTypes

C8_Witness ==
    /\ updatedOk
    /\ listCalls >= 2
    /\ \E sp \in subPages : sp[1] = existing_id

ContentsOf(children) == [i \in 1..Len(children) |-> children[i].content]

\* C9: when update_page has returned, the children of the page other than
\* sub-pages and sub-databases are the new blocks, in order.
C9_ChildrenReplaced ==
    updatedOk => ContentsOf(Deletable(pages[existing_id].children)) = article_blocks

\* C10: every run chunk_text has produced is at most chunk_size long, the runs
\* produced so far make up the part of the text before idx, and when
\* to_rich_text returns the runs in order make up the text.
C10_ChunksBoundedAndComplete ==
    cpc # "off" =>
        /\ \A k \in 1..Len(chunks) : Len(chunks[k]) <= chunk_size
        /\ Flatten(chunks) = SubSeq(text, 1, Min(idx, Len(text)))
        /\ cpc = "done" => Flatten(chunks) = text

C10_Witness ==
    /\ cpc = "done"
    /\ chunk_size = DEFAULT_CHUNK_SIZE
    /\ Len(text) = 2 * DEFAULT_CHUNK_SIZE + 1
    /\ Len(chunks) = 3

\* C14: the total main reports equals the number of calls of create_page and
\* update_page that returned during the run, over all feeds, those whose
\* harvest_feed raised after some of their entries were upserted included.
C14_TotalIsUpserted ==
    pc = "done" => total = upserted

(***************************************************************************)
(* Properties of markdown_to_blocks.                                       *)
(***************************************************************************)
NumLines == Len(MdLines)

\* Line i, trimmed, begins with three backticks
FenceAt(i) == StartsWith(Strip(MdLines[i]), <<Tick, Tick, Tick>>)

\* Line i lies between an opening fence and its closing fence (or the end):
\* an odd number of fence lines comes before it
InCodeAt(i) == Cardinality({j \in 1..(i - 1) : FenceAt(j)}) % 2 = 1

\* The fence line that opened the code line i lies in
OpenFenceBefore(i) ==
    CHOOSE j \in 1..(i - 1) : FenceAt(j) /\ \A k \in (j + 1)..(i - 1) : ~FenceAt(k)

\* The lines without the empty lines at their end
WithoutEmptyTail(ls) ==
    SubSeq(ls, 1, CHOOSE m \in 0..Len(ls) :
                      /\ m = 0 \/ ls[m] # <<>>
                      /\ \A k \in (m + 1)..Len(ls) : ls[k] = <<>>)

\* The input ends inside a code fence; the lines after the opening fence
Unterminated == mpc = "done" /\ InCodeAt(NumLines + 1)

Following == SubSeq(MdLines, OpenFenceBefore(NumLines + 1) + 1, NumLines)

\* The code blocks emitted at the end of input
CodeAtEnd ==
    {k \in 1..Len(md_blocks) : md_blocks[k].type = "code" /\ origin[k] = NumLines + 1}

\* C11 as stated: an unterminated fence yields exactly one code block, whose
\* text is all the lines after the opening fence, whatever their number and
\* content.
C11_UnterminatedFenceOneBlock ==
    Unterminated =>
        /\ Cardinality(CodeAtEnd) = 1
        /\ \A k \in CodeAtEnd : md_blocks[k].text = Join(<<"\n">>, Following)

\* C11 amended: an unterminated fence followed by at least one non-empty line
\* yields exactly one code block, whose text is the lines after the opening
\* fence, without the empty lines at the end, joined by line boundaries; when
\* no line follows or every following line is empty it yields no code block.
C11_UnterminatedFenceOneBlockIfText ==
    Unterminated =>
        IF \E i \in 1..Len(Following) : Following[i] # <<>>
        THEN /\ Cardinality(CodeAtEnd) = 1
             /\ \A k \in CodeAtEnd :
                    md_blocks[k].text = Join(<<"\n">>, WithoutEmptyTail(Following))
        ELSE CodeAtEnd = {}

C11_Witness ==
    /\ Unterminated
    /\ Len(Following) = 2
    /\ Following[2] # <<>>
    /\ Cardinality(CodeAtEnd) = 1

\* C12: the result is empty only for the empty string; a non-empty string
\* yields at least one block; when the scan of the lines has emitted nothing
\* the result is one paragraph block holding the trimmed markdown.
C12_EmptyOnlyForEmpty ==
    mpc = "done" =>
        /\ md_blocks = <<>> <=> markdown = <<>>
        /\ fellBack =>
              md_blocks = <<[type |-> "paragraph", level |-> 0,
                             text |-> Strip(markdown), language |-> <<>>]>>

C12_Witness ==
    /\ mpc = "done"
    /\ fellBack
    /\ Strip(markdown) = <<">">>
    /\ Len(md_blocks) = 1

\* Line i, outside code, is n '#' (1 <= n <= 6), a space and text
HeadingLineAt(i, n) ==
    /\ ~InCodeAt(i)
    /\ n \in 1..6
    /\ LeadCount(Strip(MdLines[i]), {"#"}) = n
    /\ Len(Strip(MdLines[i])) > n
    /\ Strip(MdLines[i])[n + 1] = " "

\* C13: every heading block has level 1, 2 or 3, and a heading line of n
\* leading '#' (1 <= n <= 6) yields a heading block of level min(n, 3) holding
\* its text.
C13_HeadingLevelClamped ==
    mpc = "done" =>
        /\ \A k \in 1..Len(md_blocks) :
              md_blocks[k].type = "heading" => md_blocks[k].level \in 1..3
        /\ \A i \in 1..NumLines : \A n \in 1..6 :
              HeadingLineAt(i, n) =>
                  \E k \in 1..Len(md_blocks) :
                      /\ origin[k] = i
                      /\ md_blocks[k].type = "heading"
                      /\ md_blocks[k].level = Min(n, 3)
                      /\ md_blocks[k].text =
                             Strip(SubSeq(Strip(MdLines[i]), n + 1,
                                          Len(Strip(MdLines[i]))))

C13_Witness ==
    /\ mpc = "done"
    /\ \E i \in 1..NumLines : \E k \in 1..Len(md_blocks) :
          /\ HeadingLineAt(i, 6)
          /\ origin[k] = i
          /\ md_blocks[k].level = 3

\* What follows the backticks the opening fence begins with, trimmed
TokenAfterFence(fence) ==
    Strip(LStripSet(Strip(fence), {Tick}))

\* The same without the backticks at its end
TokenBetweenTicks(fence) ==
    Strip(StripSet(Strip(fence), {Tick}))

\* The scanner is in code-accumulation at a line that is not a fence; at a fence
InCodeAtText == mpc = "scan" /\ li <= NumLines /\ in_code /\ ~FenceAt(li)

InCodeAtFence == mpc = "scan" /\ li <= NumLines /\ in_code /\ FenceAt(li)

\* C18 as stated: in code-accumulation a line that is not a fence is appended
\* verbatim to the code buffer and emits no block; the closing fence emits the
\* buffer as one code block tagged with the token that followed the opening
\* fence, or "plain text" when there was none.
C18_CodeAccumulation ==
    [][/\ InCodeAtText =>
            /\ code_buffer' = Append(code_buffer, MdLines[li])
            /\ md_blocks' = md_blocks
       /\ InCodeAtFence =>
            md_blocks' = Append(md_blocks,
                [type |-> "code", level |-> 0,
                 text |-> Join(<<"\n">>, code_buffer),
                 language |-> IF TokenAfterFence(MdLines[OpenFenceBefore(li)]) = <<>>
                              THEN PlainText
                              ELSE TokenAfterFence(MdLines[OpenFenceBefore(li)])])]_vars

\* C18 amended: in code-accumulation a line that is not a fence is appended
\* verbatim to the code buffer and emits no block; the closing fence emits the
\* buffer, without the empty lines at its end, as one code block if the buffer
\* holds a non-empty line, and emits nothing otherwise; the block is tagged with
\* what stood between the backticks at the two ends of the opening fence, or
\* "plain text" when nothing stood there.
C18_CodeAccumulationNonEmpty ==
    [][/\ InCodeAtText =>
            /\ code_buffer' = Append(code_buffer, MdLines[li])
            /\ md_blocks' = md_blocks
       /\ InCodeAtFence =>
            IF \E i \in 1..Len(code_buffer) : code_buffer[i] # <<>>
            THEN md_blocks' = Append(md_blocks,
                    [type |-> "code", level |-> 0,
                     text |-> Join(<<"\n">>, WithoutEmptyTail(code_buffer)),
                     language |->
                        IF TokenBetweenTicks(MdLines[OpenFenceBefore(li)]) = <<>>
                        THEN PlainText
                        ELSE TokenBetweenTicks(MdLines[OpenFenceBefore(li)])])
            ELSE md_blocks' = md_blocks]_vars

C18_Witness ==
    /\ mpc = "scan"
    /\ li = 4
    /\ ~in_code
    /\ FenceAt(1)
    /\ MdLines[2] = <<"#", " ", "a">>
    /\ FenceAt(3)
    /\ md_blocks = <<[type |-> "code", level |-> 0, text |-> MdLines[2],
                      language |-> <<"p", "y">>]>>

\* Line i is a plain line: outside code, not blank, not a fence, a heading, a
\* list item or a quote
PlainAt(i) ==
    /\ ~InCodeAt(i)
    /\ Strip(MdLines[i]) # <<>>
    /\ ~FenceAt(i)
    /\ ~IsHeading(Strip(MdLines[i]))
    /\ ~IsBullet(Strip(MdLines[i]))
    /\ ~IsNumbered(Strip(MdLines[i]))
    /\ ~IsQuote(Strip(MdLines[i]))

\* The maximal runs of consecutive plain lines, as <<first, last>>
Runs ==
    {r \in (1..NumLines) \X (1..NumLines) :
        /\ r[1] <= r[2]
        /\ \A i \in r[1]..r[2] : PlainAt(i)
        /\ r[1] = 1 \/ ~PlainAt(r[1] - 1)
        /\ r[2] = NumLines \/ ~PlainAt(r[2] + 1)}

\* The lines of a run, trimmed, joined with single spaces
RunText(r) ==
    Join(<<" ">>, [k \in 1..(r[2] - r[1] + 1) |-> Strip(MdLines[r[1] + k - 1])])

ParagraphsAt(i) ==
    {k \in 1..Len(md_blocks) : md_blocks[k].type = "paragraph" /\ origin[k] = i}

\* C19: each maximal run of plain lines becomes exactly one paragraph block,
\* emitted at the line that ends the run (or at the end of input), whose text is
\* the lines of the run joined with single spaces; there is no other paragraph
\* block unless the scan emitted nothing; the blocks are in the order of their
\* lines, the paragraph of a run before the block of the line that ended it.
C19_ParagraphPerRun ==
    mpc = "done" =>
        IF fellBack THEN Runs = {}
        ELSE /\ \A r \in Runs :
                   /\ Cardinality(ParagraphsAt(r[2] + 1)) = 1
                   /\ \A k \in ParagraphsAt(r[2] + 1) : md_blocks[k].text = RunText(r)
             /\ Cardinality({k \in 1..Len(md_blocks) : md_blocks[k].type = "paragraph"})
                    = Cardinality(Runs)
             /\ \A k \in 1..(Len(md_blocks) - 1) :
                   /\ origin[k] <= origin[k + 1]
                   /\ origin[k] = origin[k + 1] =>
                         /\ md_blocks[k].type = "paragraph"
                         /\ md_blocks[k + 1].type # "paragraph"

C19_Witness ==
    /\ mpc = "done"
    /\ <<1, 2>> \in Runs
    /\ Len(md_blocks) = 2
    /\ origin = <<3, 3>>
    /\ md_blocks[1].text = RunText(<<1, 2>>)
    /\ md_blocks[2].type = "heading"

(***************************************************************************)
(* Properties of build_properties.                                         *)
(***************************************************************************)

\* The order the entry fields are consulted in
FieldOrder == <<"published", "updated", "created">>

\* The string is a date dateutil parses
Parses(s) == Truthy(s) /\ ParseIsoformat(s).raised = "None"

\* C15 (as stated): the publish date is that of the first of published,
\* updated, created that is non-empty; when that value is absent or cannot
\* be parsed the Published date is null; no date string makes
\* build_properties raise.
C15_FirstNonEmptyWins ==
    /\ ppc # "raised"
    /\ ppc = "done" =>
         IF \E i \in 1..3 : Truthy(dates[FieldOrder[i]])
         THEN LET i == CHOOSE k \in 1..3 :
                          /\ Truthy(dates[FieldOrder[k]])
                          /\ \A j \in 1..(k - 1) : ~Truthy(dates[FieldOrder[j]])
                  s == dates[FieldOrder[i]]
              IN  IF Parses(s)
                  THEN date_prop = <<"start", ParseIsoformat(s).value>>
                  ELSE date_prop = <<>>
         ELSE date_prop = <<>>

\* C15 (amended): the publish date is that of the first of published,
\* updated, created that parses as a date; when none of them does, the
\* Published date is null; no date string makes build_properties raise.
C15_FirstParseableWins ==
    /\ ppc # "raised"
    /\ ppc = "done" =>
         IF \E i \in 1..3 : Parses(dates[FieldOrder[i]])
         THEN LET i == CHOOSE k \in 1..3 :
                          /\ Parses(dates[FieldOrder[k]])
                          /\ \A j \in 1..(k - 1) : ~Parses(dates[FieldOrder[j]])
              IN  date_prop = <<"start", ParseIsoformat(dates[FieldOrder[i]]).value>>
         ELSE date_prop = <<>>

\* An unparseable published is passed over for the date of updated
C15_Witness ==
    /\ ppc = "done"
    /\ dates["published"] = "not a date"
    /\ dates["updated"] = "2024-01-02T03:04:05Z"
    /\ dates["created"] = "2024-01-03"
    /\ date_prop = <<"start", "2024-01-02T03:04:05+00:00">>

(***************************************************************************)
(* Properties of extract_article_markdown.                                 *)
(***************************************************************************)

\* The fragment converts to markdown that is not empty
Converts(h) == ~ToMarkdown(h).raised /\ ToMarkdown(h).value # ""

\* Step 1 has a result: the entry has a link, the fetch answered a page,
\* readability is there and found an article that converts
Step1Yields ==
    /\ feed_entry.link # ""
    /\ page_html \notin {"RequestException", ""}
    /\ has_document
    /\ ~DocumentSummary(page_html).raised
    /\ Converts(DocumentSummary(page_html).value)

\* The fragments of step 2 in the order of the statement
Step2Fragments ==
    feed_entry.content
      \o (IF feed_entry.summary_detail # <<>> /\ DeclaresHtml(feed_entry.summary_detail[1])
          THEN <<feed_entry.summary_detail[2]>>
          ELSE <<>>)
      \o (IF feed_entry.summary # "None" THEN <<feed_entry.summary>> ELSE <<>>)

\* C16: the result of extract_article_markdown is the markdown of the fetched
\* article when step 1 yields one; otherwise the first non-empty markdown
\* among content[*].value, summary_detail.value (only when its type declares
\* HTML) and summary, in that order; otherwise nothing.  No failure of the
\* fetch or of a conversion raises out of the extractor, and when the
\* extractor returns nothing every fragment of step 2 has been tried.
C16_PriorityOrder ==
    /\ xpc # "raised"
    /\ xpc = "done" =>
         IF Step1Yields
         THEN extracted = ToMarkdown(DocumentSummary(page_html).value).value
         ELSE IF \E k \in 1..Len(Step2Fragments) : Converts(Step2Fragments[k])
              THEN LET k == CHOOSE n \in 1..Len(Step2Fragments) :
                                /\ Converts(Step2Fragments[n])
                                /\ \A j \in 1..(n - 1) : ~Converts(Step2Fragments[j])
                   IN  extracted = ToMarkdown(Step2Fragments[k]).value
              ELSE extracted = "None"
    /\ xpc = "done" /\ extracted = "None" =>
         \A k \in 1..Len(Step2Fragments) :
            Step2Fragments[k] # "" =>
               \E i \in 1..Len(tried) : tried[i] = Step2Fragments[k]

\* The fetch failed, the first content value could not be converted, and the
\* summary gave the result
C16_Witness ==
    /\ xpc = "done"
    /\ feed_entry.link # ""
    /\ page_html = "RequestException"
    /\ feed_entry.content = <<"<deep>">>
    /\ feed_entry.summary_detail = <<"text/plain", "<p>a</p>">>
    /\ feed_entry.summary = "<p>b</p>"
    /\ tried = <<"fetch", "<deep>", "<p>b</p>">>
    /\ extracted = "b"

(***************************************************************************)
(* Properties of the append loop.                                          *)
(***************************************************************************)

\* The concatenation of the batches, in call order
RECURSIVE Concatenation(_)
Concatenation(batches) ==
    IF batches = <<>>
    THEN <<>>
    ELSE Head(batches) \o Concatenation(Tail(batches))

\* C17: every append call carries at least 1 and at most 50 blocks; the
\* batches of one attempt, concatenated in call order, are the beginning of
\* the new block sequence, and the whole of it when the attempt completes.
C17_BatchesBoundedAndComplete ==
    /\ \A i \in 1..Len(appended) :
          Len(appended[i]) >= 1 /\ Len(appended[i]) <= 50
    /\ Len(Concatenation(appended)) <= Len(new_children)
    /\ Concatenation(appended)
         = SubSeq(new_children, 1, Len(Concatenation(appended)))
    /\ bpc = "done" => Concatenation(appended) = new_children

\* 101 blocks went out as batches of 50, 50 and 1
C17_Witness ==
    /\ bpc = "done"
    /\ Len(new_children) = 101
    /\ Len(appended) = 3
    /\ Len(appended[1]) = 50
    /\ Len(appended[2]) = 50
    /\ appended[3] = <<101>>

(***************************************************************************)
(* Termination of a run.                                                   *)
(***************************************************************************)

\* C20: a run that has started reaches the final report of main, whatever
\* remote calls fail, every one of them included: no retry loop, pagination
\* loop or entry loop runs forever.
C20_RunTerminates == (pc \notin {"idle", "done"}) ~> (pc = "done")

\* A run over two feeds in which every remote call failed has made its report
C20_Witness ==
    /\ pc = "done"
    /\ net.left = Unlimited
    /\ Len(RSS_FEEDS) = 2
    /\ raisedFeeds = {1, 2}
    /\ tries = NoTries
    /\ pages = <<>>

====
